---------------------------- MODULE Spec2Model ----------------------------
(***************************************************************************)
(* A model of the PLONK prover and verifier of mpc-plonk (src/mpc-plonk/   *)
(* src/lib.rs): the product argument, the wiring, gate and public-input    *)
(* arguments, the Fiat-Shamir transcript both roles drive, and the proof   *)
(* that travels between them.  The field, the evaluation domains and the   *)
(* polynomial arithmetic are computed, over a small prime field.           *)
(***************************************************************************)
EXTENDS Integers, Sequences, FiniteSets

(***************************************************************************)
(* The scalar field F (lib.rs: `F: FftField`), here the integers mod 13.   *)
(***************************************************************************)
FieldOrder == 13
Fld == 0 .. (FieldOrder - 1)

FAdd(a, b) == (a + b) % FieldOrder
FSub(a, b) == (a + FieldOrder - b) % FieldOrder
FMul(a, b) == (a * b) % FieldOrder
FNeg(a) == (FieldOrder - a) % FieldOrder

RECURSIVE FPow(_, _)
FPow(a, n) == IF n = 0 THEN 1 ELSE FMul(a, FPow(a, n - 1))

\* The inverse of a nonzero element (a division by zero panics in the field
\* library: callers test for zero first).
FInvTable == [a \in 1 .. (FieldOrder - 1) |->
                CHOOSE b \in 1 .. (FieldOrder - 1) : FMul(a, b) = 1]
FInv(a) == FInvTable[a]
FDiv(a, b) == FMul(a, FInv(b))

\* F::multiplicative_generator(), the shift of the coset FFT.
CosetShift == 2

(***************************************************************************)
(* Dense polynomials: the sequence of coefficients, lowest degree first,   *)
(* with no trailing zero (DensePolynomial::from_coefficients_vec).         *)
(***************************************************************************)
\* The vector with the entries of the function f over 1 .. n, each computed once.
Vec(f) == f \o << >>

RECURSIVE Trim(_)
Trim(c) == IF Len(c) = 0 THEN << >>
           ELSE IF c[Len(c)] = 0 THEN Trim(SubSeq(c, 1, Len(c) - 1))
           ELSE c

Coef(c, i) == IF i >= 1 /\ i <= Len(c) THEN c[i] ELSE 0

Max2(a, b) == IF a >= b THEN a ELSE b

RECURSIVE FSum(_, _, _)
\* The field sum of f[lo] .. f[hi].
FSum(f, lo, hi) == IF lo > hi THEN 0 ELSE FAdd(f[hi], FSum(f, lo, hi - 1))

PolyAdd(a, b) == Trim(Vec([i \in 1 .. Max2(Len(a), Len(b)) |-> FAdd(Coef(a, i), Coef(b, i))]))
PolySub(a, b) == Trim(Vec([i \in 1 .. Max2(Len(a), Len(b)) |-> FSub(Coef(a, i), Coef(b, i))]))
PolyScale(a, k) == Trim(Vec([i \in 1 .. Len(a) |-> FMul(a[i], k)]))
PolyConst(k) == Trim(<<k>>)

PolyMul(a, b) ==
    IF Len(a) = 0 \/ Len(b) = 0 THEN << >>
    ELSE Trim(Vec([k \in 1 .. (Len(a) + Len(b) - 1) |->
                 FSum([i \in 1 .. Len(a) |-> FMul(a[i], Coef(b, k + 1 - i))], 1, Len(a))]))

RECURSIVE EvalFrom(_, _, _)
EvalFrom(c, x, i) == IF i > Len(c) THEN 0 ELSE FAdd(c[i], FMul(x, EvalFrom(c, x, i + 1)))
\* Polynomial::evaluate
PolyEval(c, x) == EvalFrom(c, x, 1)

\* The coefficient vector c with c[i] multiplied by w^(i-1)
\* (EvaluationDomain::distribute_powers); trimmed, it is c(wX) (util::shift).
DistributePowers(c, w) == Vec([i \in 1 .. Len(c) |-> FMul(c[i], FPow(w, i - 1))])
shift(c, w) == Trim(DistributePowers(c, w))

RECURSIVE DivStep(_, _, _)
\* Long division: q is the quotient so far (a coefficient vector of fixed
\* length), r the remainder so far, b the nonzero divisor.
DivStep(q, r, b) ==
    IF Len(r) < Len(b) THEN <<Trim(q), r>>
    ELSE LET k == Len(r) - Len(b)
             cf == FDiv(r[Len(r)], b[Len(b)])
             sub == Vec([i \in 1 .. Len(r) |->
                        IF i > k THEN FMul(cf, b[i - k]) ELSE 0])
         IN DivStep([q EXCEPT ![k + 1] = cf], PolySub(r, sub), b)

\* DenseOrSparsePolynomial::divide_with_q_and_r: <<quotient, remainder>>.
divide_with_q_and_r(a, b) ==
    IF Len(a) < Len(b) THEN << << >>, a >>
    ELSE DivStep(Vec([i \in 1 .. (Len(a) - Len(b) + 1) |-> 0]), a, b)


\* util::interpolate: the polynomial of least degree through the points
\* <<x, y>> of pts (a sequence, the x distinct).
LagrangeBasis(pts, i) ==
    LET Num[j \in 0 .. Len(pts)] ==
            IF j = 0 THEN <<1>>
            ELSE IF j = i THEN Num[j - 1]
            ELSE PolyMul(Num[j - 1], <<FNeg(pts[j][1]), 1>>)
        Den[j \in 0 .. Len(pts)] ==
            IF j = 0 THEN 1
            ELSE IF j = i THEN Den[j - 1]
            ELSE FMul(Den[j - 1], FSub(pts[i][1], pts[j][1]))
    IN PolyScale(Num[Len(pts)], FInv(Den[Len(pts)]))

interpolate(pts) ==
    LET Acc[i \in 0 .. Len(pts)] ==
            IF i = 0 THEN << >>
            ELSE PolyAdd(Acc[i - 1], PolyScale(LagrangeBasis(pts, i), pts[i][2]))
    IN Acc[Len(pts)]

(***************************************************************************)
(* Evaluation domains (EvaluationDomain): the subgroup of size `size`      *)
(* generated by `group_gen`.  Evaluation tables are sequences: the entry   *)
(* the code indexes with i is entry i + 1 here.                            *)
(***************************************************************************)
element(dom, i) == FPow(dom.group_gen, i)
evaluate_vanishing_polynomial(dom, x) == FSub(FPow(x, dom.size), 1)
vanishing_polynomial(dom) == Vec([i \in 1 .. (dom.size + 1) |->
                                 IF i = 1 THEN FNeg(1) ELSE IF i = dom.size + 1 THEN 1 ELSE 0])

\* fft: the evaluations of the coefficient vector c at element(0..size-1).
evaluate_over_domain(c, dom) == Vec([i \in 1 .. dom.size |-> PolyEval(c, element(dom, i - 1))])

\* ifft_in_place: the coefficient vector (of length size, not trimmed) of the
\* polynomial of degree < size with the evaluations ev.
ifft(ev, dom) ==
    LET winv == FInv(dom.group_gen)
        ninv == FInv(dom.size % FieldOrder)
    IN Vec([j \in 1 .. dom.size |->
              FMul(ninv, FSum([i \in 1 .. dom.size |->
                                  FMul(ev[i], FPow(winv, (i - 1) * (j - 1)))], 1, dom.size))])

\* Evaluations::interpolate: ifft, then DensePolynomial::from_coefficients_vec.
interpolate_evals(ev, dom) == Trim(ifft(ev, dom))

\* coset_fft_in_place: the evaluations of c over the coset CosetShift * domain.
coset_fft(c, dom) ==
    Vec([i \in 1 .. dom.size |-> PolyEval(c, FMul(CosetShift, element(dom, i - 1)))])

\* coset_ifft_in_place: the coefficient vector with the evaluations ev over the coset.
coset_ifft(ev, dom) == DistributePowers(ifft(ev, dom), FInv(CosetShift))

\* divide_by_vanishing_poly_on_coset_in_place
divide_by_vanishing_poly_on_coset(ev, dom) ==
    LET zinv == FInv(evaluate_vanishing_polynomial(dom, CosetShift))
    IN Vec([i \in 1 .. dom.size |-> FMul(ev[i], zinv)])

mul_polynomials_in_evaluation_domain(a, b) == Vec([i \in 1 .. Len(a) |-> FMul(a[i], b[i])])

SubEvals(a, b) == Vec([i \in 1 .. Len(a) |-> FSub(a[i], b[i])])

\* The partial products one place late: [1, x1, ... , x1*...*x(n-1)].
partial_products_late(xs) ==
    LET T[i \in 0 .. Len(xs)] == IF i = 0 THEN 1 ELSE FMul(T[i - 1], xs[i])
    IN Vec([i \in 1 .. Len(xs) |-> T[i - 1]])

\* Replace [x1, x2, ... , xn] with [x1, x1*x2, ... , x1*x2*...*xn].
partial_products_in_place(xs) ==
    LET T[i \in 0 .. Len(xs)] == IF i = 0 THEN 1 ELSE FMul(T[i - 1], xs[i])
    IN Vec([i \in 1 .. Len(xs) |-> T[i]])

(***************************************************************************)
(* The Fiat-Shamir transcript (util::FiatShamirRng): a digest of all that  *)
(* was absorbed, and the position in the stream of challenges drawn from   *)
(* that digest.  `log` is the history of the calls made on the transcript: *)
(* it does not feed the digest.                                            *)
(***************************************************************************)
HashMod == 1009

RECURSIVE DigestFrom(_, _, _)
DigestFrom(h, bytes, i) ==
    IF i > Len(bytes) THEN (h * 31 + Len(bytes) + 17) % HashMod
    ELSE DigestFrom((h * 31 + bytes[i] + 1) % HashMod, bytes, i + 1)

from_seed(seed) == [seed |-> DigestFrom(0, <<seed>>, 1), ctr |-> 0, log |-> << >>]

\* FiatShamirRng::absorb: the digest of the old digest and the bytes; the
\* challenge stream restarts from the new digest.
absorb(fs, label, bytes) ==
    [seed |-> DigestFrom(fs.seed, bytes, 1),
     ctr  |-> 0,
     log  |-> Append(fs.log, [op |-> "absorb", label |-> label, data |-> bytes])]

RECURSIVE Stream(_, _)
\* The state of the challenge stream seeded with h, n draws on.
Stream(h, n) == IF n = 0 THEN (h * 7 + 3) % HashMod
                ELSE (Stream(h, n - 1) * 37 + 11) % HashMod

\* The next challenge of the stream.
gen_value(fs) == (Stream(fs.seed, fs.ctr) \div 7) % FieldOrder

\* FiatShamirRng::gen: draws the challenge and advances the stream.
gen(fs) ==
    [seed |-> fs.seed,
     ctr  |-> fs.ctr + 1,
     log  |-> Append(fs.log, [op |-> "gen", label |-> "", data |-> <<gen_value(fs)>>])]

(***************************************************************************)
(* The polynomial commitment scheme (PolynomialCommitment, instantiated by *)
(* KZG in the tests), in its ideal form: the commitment stands for the     *)
(* polynomial, an opening proof at x for the value v is the quotient       *)
(* (p - v) / (X - x), and the check is the equation the pairing tests.     *)
(***************************************************************************)
PCCommit(p) == Trim(p)
PCOpen(p, x) == divide_with_q_and_r(PolySub(Trim(p), PolyConst(PolyEval(p, x))), <<FNeg(x), 1>>)[1]
PCCheck(cmt, x, v, proof) == PolySub(cmt, PolyConst(v)) = PolyMul(proof, <<FNeg(x), 1>>)

\* ToBytes of a commitment.
to_bytes(cmt) == cmt

\* The form of a value the prover handles: Shared as the commitment scheme or
\* a polynomial evaluation hands it back (one party's share when the field
\* is a secret-shared one), Public once MpcWire::publicize was applied.
Shared == "shared"
Public == "public"
publicize(form) == Public

(***************************************************************************)
(* Prover                                                                  *)
(***************************************************************************)

\* commit without the absorption of the commitment.
commit_unabsorbed(fs, label, p, degree) ==
    IF degree >= 0 /\ Len(Trim(p)) > degree + 1
    THEN [ok |-> FALSE, fs |-> fs, c |-> << >>]
    ELSE [ok |-> TRUE, fs |-> fs, c |-> PCCommit(p),
          form |-> [absorbed |-> publicize(Shared), returned |-> publicize(Shared)]]

\* Prover::commit: commits to p, publicizes the commitment and absorbs it.
\* The commitment scheme refuses a polynomial above its degree bound
\* (degree = -1: no bound), and commit's caller unwraps the error.
commit(fs, label, p, degree) ==
    IF degree >= 0 /\ Len(Trim(p)) > degree + 1
    THEN [ok |-> FALSE, fs |-> fs, c |-> << >>]
    ELSE LET c == PCCommit(p)
             c_form == publicize(Shared)
         IN [ok |-> TRUE, fs |-> absorb(fs, label, to_bytes(c)), c |-> c,
             form |-> [absorbed |-> c_form, returned |-> c_form]]

\* Prover::eval: the evaluation of p at x and the proof of it.  The
\* evaluation is publicized (line 339), the proof is returned as PC::open
\* gave it.
eval(p, x) == [v |-> PolyEval(p, x), pf |-> PCOpen(p, x),
               form |-> [v |-> publicize(Shared), pf |-> Shared]]

\* The debug assertions of prove_unit_product (lines 114-118, 153-157, 159-162,
\* 170-174), which a build without debug assertions does not evaluate.
unit_product_debug_asserts(f, dom, t_evals, t, q, r) ==
    LET k == dom.size
        w == element(dom, 1)
    IN /\ Len(f) >= 1
       /\ t_evals[Len(f)] = 1
       /\ FMul(t_evals[Len(f)], t_evals[1]) = t_evals[1]
       /\ PolyEval(t, element(dom, k - 1)) = 1
       /\ \A i \in 0 .. (k - 1) :
             LET ri == element(dom, i)
             IN PolyEval(t, FMul(w, ri)) = FMul(PolyEval(t, ri), PolyEval(f, FMul(w, ri)))
       /\ FSub(PolyEval(t, FMul(w, r)), FMul(PolyEval(t, r), PolyEval(f, FMul(w, r))))
             = FMul(evaluate_vanishing_polynomial(dom, r), PolyEval(q, r))
       /\ PolyEval(t, element(dom, k - 1)) = 1

\* Lines 163-183: the challenge r and the five openings; the debug
\* assertions on the way.
unit_product_open(fs0, f, dom, debug, t_evals, t, ct, q, cq) ==
    LET k == dom.size
        w == element(dom, 1)
        r == gen_value(cq.fs)
    IN IF debug /\ ~unit_product_debug_asserts(f, dom, t_evals, t, q, r)
       THEN [ok |-> FALSE, fs |-> fs0]
       ELSE [ok |-> TRUE, fs |-> gen(cq.fs),
             cmt_forms |-> << <<"t", ct.form>>, <<"q", cq.form>> >>,
             pf |-> [t_cmt     |-> ct.c,
                     q_cmt     |-> cq.c,
                     t_wk_open |-> eval(t, element(dom, k - 1)),
                     t_r_open  |-> eval(t, r),
                     t_wr_open |-> eval(t, FMul(w, r)),
                     f_wr_open |-> eval(f, FMul(w, r)),
                     q_r_open  |-> eval(q, r)]]

\* Lines 121-152: the quotient q of t(wX) - t(X) f(wX) by the domain's
\* vanishing polynomial, computed over the coset, and its commitment.
unit_product_q(fs0, f, dom, debug, t_evals, t, ct) ==
    LET w == element(dom, 1)
        f_evals == coset_fft(DistributePowers(f, w), dom)
        tc_evals == coset_fft(t, dom)
        fwt_evals == mul_polynomials_in_evaluation_domain(f_evals, tc_evals)
        tw_evals == coset_fft(DistributePowers(t, w), dom)
        q == Trim(coset_ifft(divide_by_vanishing_poly_on_coset(
                                 SubEvals(tw_evals, fwt_evals), dom), dom))
    IN unit_product_open(fs0, f, dom, debug, t_evals, t, ct, q, commit(ct.fs, "q", q, -1))

\* Lines 119-120: t interpolates the partial products and is committed.
unit_product_t(fs0, f, dom, debug, t_evals) ==
    LET t == interpolate_evals(t_evals, dom)
    IN unit_product_q(fs0, f, dom, debug, t_evals, t, commit(fs0, "t", t, -1))

\* Prover::prove_unit_product: f is the coefficient vector of the committed
\* polynomial (as the caller built it: an in-place ifft leaves it untrimmed).
prove_unit_product(fs0, f, dom, debug) ==
    unit_product_t(fs0, f, dom, debug,
                   partial_products_in_place(evaluate_over_domain(f, dom)))

(***************************************************************************)
(* Verifier                                                                *)
(***************************************************************************)

\* recv_commit without the absorption.
recv_commit_unabsorbed(fs, label, c) == fs

\* Verifier::recv_commit: absorbs the received commitment.
recv_commit(fs, label, c) == absorb(fs, label, to_bytes(c))

\* check without the commitment scheme's verdict.
check_unchecked(cmt, x, open) == TRUE

\* Verifier::check: the opening check of (value, proof) against cmt at x.
check(cmt, x, open) == PCCheck(cmt, x, open.v, open.pf)

\* The last assertion of verify_unit_product left out.
total_product_unchecked(t_wk) == TRUE

\* The two assertions that end verify_unit_product (lines 430-435).
partial_product_ok(t_wr, t_r, f_wr, q_r, dom, r) ==
    FSub(t_wr, FMul(t_r, f_wr)) = FMul(evaluate_vanishing_polynomial(dom, r), q_r)
total_product_ok(t_wk) == t_wk = 1

\* Verifier::verify_unit_product.  ok: no check and no assertion failed.
verify_unit_product(fs0, f_cmt, pf, dom) ==
    LET k == dom.size
        w == element(dom, 1)
        fs1 == recv_commit(fs0, "t", pf.t_cmt)
        fs2 == recv_commit(fs1, "q", pf.q_cmt)
        r == gen_value(fs2)
        fs3 == gen(fs2)
        opens == /\ check(f_cmt, FMul(w, r), pf.f_wr_open)
                 /\ check(pf.q_cmt, r, pf.q_r_open)
                 /\ check(pf.t_cmt, r, pf.t_r_open)
                 /\ check(pf.t_cmt, FMul(w, r), pf.t_wr_open)
                 /\ check(pf.t_cmt, element(dom, k - 1), pf.t_wk_open)
    IN [fs |-> fs3,
        ok |-> /\ opens
               /\ partial_product_ok(pf.t_wr_open.v, pf.t_r_open.v, pf.f_wr_open.v,
                                     pf.q_r_open.v, dom, r)
               /\ total_product_ok(pf.t_wk_open.v)]

(***************************************************************************)
(* The circuit layout (relations::flat::CircuitLayout): the wire           *)
(* polynomial p (an Option), the selector s, the wiring polynomial w, the  *)
(* list of public wires <<name, index>> and the two domains.               *)
(***************************************************************************)
Some(v) == [some |-> TRUE, val |-> v]
None == [some |-> FALSE, val |-> << >>]

\* CircuitLayout::vanishing_poly_on_inputs: the product of (X - a) over the
\* public wires' domain points a.
vanishing_poly_on_inputs(circ) ==
    LET pi == circ.public_indices
        Z[i \in 0 .. Len(pi)] ==
            IF i = 0 THEN <<1>>
            ELSE PolyMul(Z[i - 1], <<FNeg(element(circ.domains.wires, pi[i][2])), 1>>)
    IN Z[Len(pi)]

\* CircuitLayout::inputs_poly: the interpolation of the declared values at
\* the public wires' domain points.
inputs_poly(circ, public) ==
    interpolate(Vec([i \in 1 .. Len(circ.public_indices) |->
                       <<element(circ.domains.wires, circ.public_indices[i][2]),
                         public[circ.public_indices[i][1]]>>]))

\* setup: the public parameters, w and s with their commitments.
setup(circ) == [w |-> circ.w, w_cmt |-> PCCommit(circ.w),
                s |-> circ.s, s_cmt |-> PCCommit(circ.s)]

\* VerifierParams::from: the commitments of the public parameters.
VerifierParams_from(pp) == [w_cmt |-> pp.w_cmt, s_cmt |-> pp.s_cmt]

\* Prover::prove_public.  V interpolates p's own values at the public wires.
prove_public(fs0, p, circ, debug) ==
    LET pi == circ.public_indices
        points == Vec([i \in 1 .. Len(pi) |->
                         LET x == element(circ.domains.wires, pi[i][2])
                         IN <<x, PolyEval(p, x)>>])
        v == interpolate(points)
        z == vanishing_poly_on_inputs(circ)
        q == divide_with_q_and_r(PolySub(p, v), z)[1]
        cq == commit(fs0, "pub_q", q, -1)
        x == gen_value(cq.fs)
        fs1 == gen(cq.fs)
        q_open == eval(q, x)
        p_open == eval(p, x)
    IN IF debug /\ FSub(p_open.v, PolyEval(v, x)) # FMul(q_open.v, PolyEval(z, x))
       THEN [ok |-> FALSE, fs |-> fs1]
       ELSE [ok |-> TRUE, fs |-> fs1,
             cmt_forms |-> << <<"pub_q", cq.form>> >>,
             pf |-> [q_open |-> q_open, q_cmt |-> cq.c, p_open |-> p_open]]

\* The gate identity on opened values (lines 304-308 and 519-522).
gate_identity_ok(s, p, pw, pww, q, zx) ==
    FSub(FAdd(FMul(s, FAdd(p, pw)), FMul(FMul(FSub(1, s), p), pw)), pww) = FMul(q, zx)

\* The division of prove_gates (lines 285-295): <<quotient, remainder>> of
\* S*(P + Pw) + (1 - S)*P*Pw - Pww by the gate domain's vanishing polynomial.
gates_division(p, circ) ==
    LET w == circ.domains.wires.group_gen
        pw == shift(p, w)
        pww == shift(p, FMul(w, w))
        d == PolySub(PolyAdd(PolyMul(circ.s, PolyAdd(p, pw)),
                             PolyMul(PolyAdd(PolyScale(circ.s, FNeg(1)), <<1>>),
                                     PolyMul(p, pw))),
                     pww)
    IN divide_with_q_and_r(d, vanishing_polynomial(circ.domains.gates))

\* Prover::prove_gates.
prove_gates(fs0, p, circ, pp, debug) ==
    LET w == circ.domains.wires.group_gen
        qr == gates_division(p, circ)
        q == qr[1]
        cq == commit(fs0, "gates_q", q, -1)
        x == gen_value(cq.fs)
        fs1 == gen(cq.fs)
        s_open == eval(pp.s, x)
        p_open == eval(p, x)
        q_open == eval(q, x)
        p_w_open == eval(p, FMul(w, x))
        p_w2_open == eval(p, FMul(FMul(w, w), x))
    IN IF debug /\ qr[2] # << >>
       THEN [ok |-> FALSE, fs |-> fs0]
       ELSE IF ~gate_identity_ok(s_open.v, p_open.v, p_w_open.v, p_w2_open.v, q_open.v,
                                 evaluate_vanishing_polynomial(circ.domains.gates, x))
       THEN [ok |-> FALSE, fs |-> fs1]
       ELSE [ok |-> TRUE, fs |-> fs1,
             cmt_forms |-> << <<"gates_q", cq.form>> >>,
             pf |-> [q_cmt |-> cq.c, s_open |-> s_open, p_open |-> p_open,
                     q_open |-> q_open, p_w_open |-> p_w_open, p_w2_open |-> p_w2_open]]

\* The wiring identity on opened values (lines 229-232 and 542-545).
wiring_identity_ok(p_x, l1_x, w_x, l2_q_x, x, y, z, dom) ==
    FSub(FMul(FAdd(FAdd(p_x, FMul(y, x)), z), l1_x), FAdd(FAdd(p_x, FMul(y, w_x)), z))
        = FMul(l2_q_x, evaluate_vanishing_polynomial(dom, x))

\* Lines 218-241: the challenge x and the four openings.
wiring_open(p, pp, dom, debug, y, z, l1, cl1, prod, l2_q, cl2) ==
    LET x == gen_value(cl2.fs)
        l2_q_x_open == eval(l2_q, x)
        w_x_open == eval(pp.w, x)
        l1_x_open == eval(l1, x)
        p_x_open == eval(p, x)
    IN IF debug /\ ~wiring_identity_ok(p_x_open.v, l1_x_open.v, w_x_open.v,
                                       l2_q_x_open.v, x, y, z, dom)
       THEN [ok |-> FALSE, fs |-> gen(cl2.fs)]
       ELSE [ok |-> TRUE, fs |-> gen(cl2.fs),
             cmt_forms |-> << <<"l1", cl1.form>> >> \o prod.cmt_forms
                              \o << <<"l2_q", cl2.form>> >>,
             pf |-> [l1_prod_pf  |-> prod.pf,
                     l2_q_x_open |-> l2_q_x_open,
                     l1_x_open   |-> l1_x_open,
                     p_x_open    |-> p_x_open,
                     w_x_open    |-> w_x_open,
                     l1_cmt      |-> cl1.c,
                     l2_q_cmt    |-> cl2.c]]

\* Lines 208-217: after the product argument of l1, the quotient l2_q of
\* l1 * den - num by the vanishing polynomial, over the coset, and its commitment.
wiring_l2_q(p, pp, dom, debug, y, z, num_evals, den_evals, l1, cl1, prod) ==
    IF ~prod.ok THEN [ok |-> FALSE, fs |-> prod.fs]
    ELSE LET l1_v == coset_fft(l1, dom)
             num_v == coset_fft(interpolate_evals(num_evals, dom), dom)
             den_v == coset_fft(interpolate_evals(den_evals, dom), dom)
             l1_den_v == SubEvals(mul_polynomials_in_evaluation_domain(l1_v, den_v), num_v)
             l2_q == Trim(coset_ifft(divide_by_vanishing_poly_on_coset(l1_den_v, dom), dom))
         IN wiring_open(p, pp, dom, debug, y, z, l1, cl1, prod, l2_q,
                        commit(prod.fs, "l2_q", l2_q, -1))

\* Lines 204-207: l1 is committed and proved to have unit product.
wiring_l1(fsz, p, pp, dom, debug, y, z, num_evals, den_evals, l1) ==
    LET cl1 == commit(fsz, "l1", l1, -1)
    IN wiring_l2_q(p, pp, dom, debug, y, z, num_evals, den_evals, l1, cl1,
                   prove_unit_product(cl1.fs, l1, dom, debug))

\* Prover::prove_wiring.  The pointwise division of the numerator by the
\* denominator panics when a denominator is zero (the field's division
\* unwraps the inverse).
prove_wiring(fs0, p, pp, dom, debug) ==
    LET y == gen_value(fs0)
        z == gen_value(gen(fs0))
        fsz == gen(gen(fs0))
        p_evals == evaluate_over_domain(p, dom)
        w_evals == evaluate_over_domain(pp.w, dom)
        yx_z_evals == evaluate_over_domain(Trim(<<z, y>>), dom)
        num_evals == Vec([i \in 1 .. dom.size |-> FAdd(FAdd(p_evals[i], FMul(w_evals[i], y)), z)])
        den_evals == Vec([i \in 1 .. dom.size |-> FAdd(p_evals[i], yx_z_evals[i])])
        l1_evals == Vec([i \in 1 .. dom.size |-> FDiv(num_evals[i], den_evals[i])])
    IN IF \E i \in 1 .. dom.size : den_evals[i] = 0
       THEN [ok |-> FALSE, fs |-> fsz]
       ELSE wiring_l1(fsz, p, pp, dom, debug, y, z, num_evals, den_evals,
                      interpolate_evals(l1_evals, dom))

\* verify_public without the identity p(x) - V(x) = q(x) Z(x).
verify_public_unbound(fs0, circ, p_cmt, pf, public) ==
    LET fs1 == recv_commit(fs0, "pub_q", pf.q_cmt)
        x == gen_value(fs1)
    IN [fs |-> gen(fs1),
        ok |-> check(p_cmt, x, pf.p_open) /\ check(pf.q_cmt, x, pf.q_open)]

\* Verifier::verify_public.  x: the challenge drawn.
verify_public(fs0, circ, p_cmt, pf, public) ==
    LET fs1 == recv_commit(fs0, "pub_q", pf.q_cmt)
        x == gen_value(fs1)
        fs2 == gen(fs1)
        z == vanishing_poly_on_inputs(circ)
        v == inputs_poly(circ, public)
    IN [fs |-> fs2,
        ok |-> /\ check(p_cmt, x, pf.p_open)
               /\ check(pf.q_cmt, x, pf.q_open)
               /\ FSub(pf.p_open.v, PolyEval(v, x)) = FMul(pf.q_open.v, PolyEval(z, x))]

\* Verifier::verify_gates.
verify_gates(fs0, p_cmt, circ, vp, pf) ==
    LET fs1 == recv_commit(fs0, "gates_q", pf.q_cmt)
        x == gen_value(fs1)
        fs2 == gen(fs1)
        w == circ.domains.wires.group_gen
    IN [fs |-> fs2,
        ok |-> /\ check(vp.s_cmt, x, pf.s_open)
               /\ check(pf.q_cmt, x, pf.q_open)
               /\ check(p_cmt, x, pf.p_open)
               /\ check(p_cmt, FMul(x, w), pf.p_w_open)
               /\ check(p_cmt, FMul(FMul(x, w), w), pf.p_w2_open)
               /\ gate_identity_ok(pf.s_open.v, pf.p_open.v, pf.p_w_open.v, pf.p_w2_open.v,
                                   pf.q_open.v,
                                   evaluate_vanishing_polynomial(circ.domains.gates, x))]

\* Verifier::verify_wiring.
verify_wiring(fs0, p_cmt, vp, dom, pf) ==
    LET y == gen_value(fs0)
        fsy == gen(fs0)
        z == gen_value(fsy)
        fsz == gen(fsy)
        fs1 == recv_commit(fsz, "l1", pf.l1_cmt)
        prod == verify_unit_product(fs1, pf.l1_cmt, pf.l1_prod_pf, dom)
    IN IF ~prod.ok THEN [fs |-> prod.fs, ok |-> FALSE]
       ELSE LET fs2 == recv_commit(prod.fs, "l2_q", pf.l2_q_cmt)
                x == gen_value(fs2)
                fs3 == gen(fs2)
            IN [fs |-> fs3,
                ok |-> /\ check(pf.l2_q_cmt, x, pf.l2_q_x_open)
                       /\ check(vp.w_cmt, x, pf.w_x_open)
                       /\ check(pf.l1_cmt, x, pf.l1_x_open)
                       /\ check(p_cmt, x, pf.p_x_open)
                       /\ wiring_identity_ok(pf.p_x_open.v, pf.l1_x_open.v, pf.w_x_open.v,
                                             pf.l2_q_x_open.v, x, y, z, dom)]

(***************************************************************************)
(* The circuits the runs draw from (the layouts relations::flat builds):   *)
(* two gates over the gate domain {1, w^3}, six wires over the wire domain *)
(* generated by w; gate i reads wires 3i, 3i+1 and writes wire 3i+2.       *)
(***************************************************************************)
WiresDomain == [size |-> 6, group_gen |-> 4]
GatesDomain == [size |-> 2, group_gen |-> 12]
Domains == [wires |-> WiresDomain, gates |-> GatesDomain]

\* A shape: the selector of each gate (1: addition, 0: multiplication), the
\* wiring permutation (the image of wire i - 1 is sigma[i]) and the public wires.
Shapes ==
    << [sel |-> <<0, 0>>, sigma |-> <<1, 0, 3, 4, 2, 5>>,
        public_indices |-> << <<"out", 5>> >>],
       [sel |-> <<1, 1>>, sigma |-> <<0, 1, 3, 2, 4, 5>>,
        public_indices |-> << <<"a", 0>>, <<"out", 5>> >>],
       [sel |-> <<1, 0>>, sigma |-> <<1, 0, 3, 5, 4, 2>>,
        public_indices |-> << <<"out", 5>> >>] >>

NumShapes == 3

\* The wire values an honest evaluation of shape sh gives on the inputs a, d.
Gate(sel, x, y) == IF sel = 1 THEN FAdd(x, y) ELSE FMul(x, y)
HonestWires(sh, a, d) ==
    IF sh = 1
    THEN LET c == Gate(0, a, a) IN <<a, a, c, c, c, Gate(0, c, c)>>
    ELSE IF sh = 2
    THEN LET c == Gate(1, a, a) IN <<a, a, c, c, d, Gate(1, c, d)>>
    ELSE LET c == Gate(1, a, a) IN <<a, a, c, c, 1, Gate(0, c, 1)>>

\* The layout of shape sh with the wire values wires (CircuitLayout::from_circuit).
Layout(sh, wires) ==
    [p |-> Some(interpolate_evals(wires, WiresDomain)),
     s |-> interpolate_evals(Shapes[sh].sel, GatesDomain),
     w |-> interpolate_evals(Vec([i \in 1 .. 6 |-> element(WiresDomain, Shapes[sh].sigma[i])]),
                             WiresDomain),
     public_indices |-> Shapes[sh].public_indices,
     domains |-> Domains]

\* The public map of the wire values.
PublicOf(sh, wires) ==
    IF sh = 2 THEN [a |-> wires[1], out |-> wires[6]] ELSE [out |-> wires[6]]

(***************************************************************************)
(* Bounds of the model.                                                    *)
(***************************************************************************)
\* Transcript seeds are 0 .. NumSeeds - 1.
NumSeeds == 5
\* Circuit inputs are 2 .. MaxInput.
MaxInput == 3
\* A corrupted wire, a changed public value and a tampered proof field differ
\* from the original by 1 .. MaxDelta.
MaxDelta == 1
\* Prove/verify pairs run on the same two transcripts.
MaxRounds == 2

(***************************************************************************)
(* State                                                                   *)
(***************************************************************************)
VARIABLES
    input,      \* what the run was started with: layout, declared public map, seed, build
    prv,        \* the Prover: its position, its transcript, the parts proved so far,
                \* the forms in which it absorbed and kept its commitments
    ver,        \* the Verifier: its position and its transcript
    wire,       \* the proof on its way from the prover to the verifier
    round       \* the number of the current prove/verify pair

vars == <<input, prv, ver, wire, round>>

Nil == [nil |-> TRUE]
NoProof == [sent |-> FALSE, pf |-> Nil, tampered |-> << >>]

\* Prover::prove with the gate argument before the public-input argument.
prove_order_swapped == <<"gates", "public", "wiring">>

\* The order of the sub-arguments in Prover::prove (lines 387-389) and in
\* Verifier::verify (lines 483-485).
prove_order == <<"public", "gates", "wiring">>
verify_order == <<"public", "gates", "wiring">>

\* The stage after `stage` in `order`; `last` after the last one.
StageAfter(order, stage, last) ==
    LET i == CHOOSE j \in 1 .. Len(order) : order[j] = stage
    IN IF i = Len(order) THEN last ELSE order[i + 1]

\* Which of the two layouts handed over hold the witness: Prover::prove
\* wants it present, Verifier::verify wants it absent.
LayoutsHeld == [prover : BOOLEAN, verifier : BOOLEAN]

Init ==
    /\ \E sh \in 1 .. NumShapes, a \in 2 .. MaxInput, d \in 2 .. MaxInput,
          bad \in 0 .. 6, pubmod \in 0 .. 2, delta \in 1 .. MaxDelta,
          seed \in 0 .. (NumSeeds - 1), debug \in BOOLEAN, held \in LayoutsHeld :
          /\ sh # 2 => d = 2
          /\ bad # 0 => pubmod = 0
          /\ pubmod <= Len(Shapes[sh].public_indices)
          /\ (bad = 0 /\ pubmod = 0) => delta = 1
          /\ LET honest == HonestWires(sh, a, d)
                 wires == IF bad = 0 THEN honest
                          ELSE [honest EXCEPT ![bad] = FAdd(@, delta)]
                 decl == PublicOf(sh, honest)
                 name == IF pubmod = 0 THEN "" ELSE Shapes[sh].public_indices[pubmod][1]
             IN input = [circ    |-> Layout(sh, wires),
                         wires   |-> wires,
                         shape   |-> sh,
                         correct |-> decl,
                         public  |-> IF pubmod = 0 THEN decl
                                     ELSE [decl EXCEPT ![name] = FAdd(@, delta)],
                         seed    |-> seed,
                         debug   |-> debug,
                         held    |-> held]
             /\ prv = [pc |-> "start", fs |-> from_seed(seed), cmt_forms |-> << >>,
                       p_cmt |-> << >>, public |-> Nil, gates |-> Nil, wiring |-> Nil]
             /\ ver = [pc |-> "start", fs |-> from_seed(seed), p_cmt |-> << >>,
                       passed |-> << >>]
    /\ wire = NoProof
    /\ round = 1

\* The copy of the layout without the witness (tests::plonk_test, lines
\* 645-649), from which the public parameters are set up.
v_circ == [input.circ EXCEPT !.p = None]
pub_params == setup(v_circ)

\* The layouts Prover::prove and Verifier::verify are called with.
prove_circ == IF input.held.prover THEN input.circ ELSE v_circ
verify_circ == IF input.held.verifier THEN input.circ ELSE v_circ

(***************************************************************************)
(* Prover::prove, one action per call it makes.                            *)
(***************************************************************************)
Panic(fs) == [prv EXCEPT !.pc = "panic", !.fs = fs]

\* Prover::prove with the layout tested after p was committed.
ProveCommit_checked_late ==
    /\ prv.pc = "start"
    /\ LET circ == prove_circ
           n_gates == circ.domains.gates.size
           n_wires == n_gates * 3
           c == commit(prv.fs, "p", circ.p.val, n_wires - 1)
       IN prv' = IF ~circ.p.some \/ ~c.ok THEN Panic(c.fs)
                 ELSE [prv EXCEPT !.pc = prove_order[1], !.fs = c.fs, !.p_cmt = c.c,
                                  !.cmt_forms = << <<"p", c.form>> >>]
    /\ UNCHANGED <<input, ver, wire, round>>

\* Lines 376-386: the layout must hold the witness; p is committed with the
\* degree bound n_wires - 1.
ProveCommit ==
    /\ prv.pc = "start"
    /\ LET circ == prove_circ
           n_gates == circ.domains.gates.size
           n_wires == n_gates * 3
           c == commit(prv.fs, "p", circ.p.val, n_wires - 1)
       IN prv' = IF ~circ.p.some \/ ~c.ok THEN Panic(prv.fs)
                 ELSE [prv EXCEPT !.pc = prove_order[1], !.fs = c.fs, !.p_cmt = c.c,
                                  !.cmt_forms = << <<"p", c.form>> >>]
    /\ UNCHANGED <<input, ver, wire, round>>

ProvePublic ==
    /\ prv.pc = "public"
    /\ LET r == prove_public(prv.fs, prove_circ.p.val, prove_circ, input.debug)
       IN prv' = IF ~r.ok THEN Panic(r.fs)
                 ELSE [prv EXCEPT !.pc = StageAfter(prove_order, "public", "return"),
                                  !.fs = r.fs, !.public = r.pf,
                                  !.cmt_forms = @ \o r.cmt_forms]
    /\ UNCHANGED <<input, ver, wire, round>>

ProveGates ==
    /\ prv.pc = "gates"
    /\ LET r == prove_gates(prv.fs, prove_circ.p.val, prove_circ, pub_params, input.debug)
       IN prv' = IF ~r.ok THEN Panic(r.fs)
                 ELSE [prv EXCEPT !.pc = StageAfter(prove_order, "gates", "return"),
                                  !.fs = r.fs, !.gates = r.pf,
                                  !.cmt_forms = @ \o r.cmt_forms]
    /\ UNCHANGED <<input, ver, wire, round>>

ProveWiring ==
    /\ prv.pc = "wiring"
    /\ LET r == prove_wiring(prv.fs, prove_circ.p.val, pub_params,
                             prove_circ.domains.wires, input.debug)
       IN prv' = IF ~r.ok THEN Panic(r.fs)
                 ELSE [prv EXCEPT !.pc = StageAfter(prove_order, "wiring", "return"),
                                  !.fs = r.fs, !.wiring = r.pf,
                                  !.cmt_forms = @ \o r.cmt_forms]
    /\ UNCHANGED <<input, ver, wire, round>>

\* Lines 390-395: the Proof is returned, and handed to the verifier.
ProveReturn ==
    /\ prv.pc = "return"
    /\ prv' = [prv EXCEPT !.pc = "done"]
    /\ wire' = [sent |-> TRUE,
                pf |-> [p_cmt |-> prv.p_cmt, wiring |-> prv.wiring,
                        gates |-> prv.gates, public |-> prv.public],
                tampered |-> << >>]
    /\ UNCHANGED <<input, ver, round>>

(***************************************************************************)
(* The proof in flight may be changed in one field before it is verified   *)
(* (a test harness mutating a Proof, or an adversary on the channel).      *)
(***************************************************************************)
OpenFields(prefix, names) == {prefix \o <<n, k>> : n \in names, k \in {"v", "pf"}}

\* The paths of the fields of a Proof (data_structures.rs, lines 13-93).
ProofFields ==
    {<<"p_cmt">>, <<"public", "q_cmt">>, <<"gates", "q_cmt">>,
     <<"wiring", "l1_cmt">>, <<"wiring", "l2_q_cmt">>,
     <<"wiring", "l1_prod_pf", "t_cmt">>, <<"wiring", "l1_prod_pf", "q_cmt">>}
    \cup OpenFields(<<"public">>, {"q_open", "p_open"})
    \cup OpenFields(<<"gates">>, {"s_open", "q_open", "p_open", "p_w_open", "p_w2_open"})
    \cup OpenFields(<<"wiring">>, {"p_x_open", "w_x_open", "l1_x_open", "l2_q_x_open"})
    \cup OpenFields(<<"wiring", "l1_prod_pf">>,
                    {"t_wk_open", "t_r_open", "t_wr_open", "f_wr_open", "q_r_open"})

\* An opened value moves by d; a commitment or an opening proof becomes that
\* of the polynomial plus d.
TamperLeaf(path, x, d) == IF path[Len(path)] = "v" THEN FAdd(x, d) ELSE PolyAdd(x, <<d>>)

TamperAt(pf, path, d) ==
    CASE Len(path) = 1 -> [pf EXCEPT ![path[1]] = TamperLeaf(path, @, d)]
      [] Len(path) = 2 -> [pf EXCEPT ![path[1]][path[2]] = TamperLeaf(path, @, d)]
      [] Len(path) = 3 -> [pf EXCEPT ![path[1]][path[2]][path[3]] = TamperLeaf(path, @, d)]
      [] Len(path) = 4 ->
            [pf EXCEPT ![path[1]][path[2]][path[3]][path[4]] = TamperLeaf(path, @, d)]

Tamper ==
    /\ wire.sent
    /\ wire.tampered = << >>
    /\ ver.pc = "start"
    /\ round = 1
    /\ input.public = input.correct
    /\ \E path \in ProofFields, d \in 1 .. MaxDelta :
          wire' = [wire EXCEPT !.pf = TamperAt(wire.pf, path, d), !.tampered = path]
    /\ UNCHANGED <<input, prv, ver, round>>

(***************************************************************************)
(* Verifier::verify, one action per call it makes.  A failed assertion     *)
(* ends the call: the proof is rejected.                                   *)
(***************************************************************************)
verifier_params == VerifierParams_from(pub_params)

\* Lines 479-482: the layout must not hold the witness; p's commitment is received.
VerifyRecv ==
    /\ ver.pc = "start"
    /\ wire.sent
    /\ ver' = IF verify_circ.p.some THEN [ver EXCEPT !.pc = "rejected"]
              ELSE [ver EXCEPT !.pc = verify_order[1],
                               !.fs = recv_commit(ver.fs, "p", wire.pf.p_cmt),
                               !.p_cmt = wire.pf.p_cmt]
    /\ UNCHANGED <<input, prv, wire, round>>

\* A verifier that goes on after a failed sub-argument.
Verdict_lenient(r, stage) ==
    [ver EXCEPT !.pc = StageAfter(verify_order, stage, "accepted"),
                !.fs = r.fs,
                !.passed = IF r.ok THEN Append(@, stage) ELSE @]

\* The verifier after the sub-argument `stage` returned r; `passed` lists the
\* sub-arguments that returned without a failed assertion.
Verdict(r, stage) ==
    [ver EXCEPT !.pc = IF r.ok THEN StageAfter(verify_order, stage, "accepted")
                       ELSE "rejected",
                !.fs = r.fs,
                !.passed = IF r.ok THEN Append(@, stage) ELSE @]

VerifyPublic ==
    /\ ver.pc = "public"
    /\ ver' = Verdict(verify_public(ver.fs, verify_circ, ver.p_cmt, wire.pf.public, input.public),
                      "public")
    /\ UNCHANGED <<input, prv, wire, round>>

VerifyGates ==
    /\ ver.pc = "gates"
    /\ ver' = Verdict(verify_gates(ver.fs, ver.p_cmt, verify_circ, verifier_params, wire.pf.gates),
                      "gates")
    /\ UNCHANGED <<input, prv, wire, round>>

VerifyWiring ==
    /\ ver.pc = "wiring"
    /\ ver' = Verdict(verify_wiring(ver.fs, ver.p_cmt, verifier_params,
                                    verify_circ.domains.wires, wire.pf.wiring),
                      "wiring")
    /\ UNCHANGED <<input, prv, wire, round>>

\* A further prove/verify pair on the same two transcripts, as the loop of
\* tests::prod_test runs them (lines 601-618).
NextRound ==
    /\ ver.pc = "accepted"
    /\ wire.tampered = << >>
    /\ round < MaxRounds
    /\ round' = round + 1
    /\ prv' = [pc |-> "start", fs |-> prv.fs, cmt_forms |-> << >>,
               p_cmt |-> << >>, public |-> Nil, gates |-> Nil, wiring |-> Nil]
    /\ ver' = [pc |-> "start", fs |-> ver.fs, p_cmt |-> << >>, passed |-> << >>]
    /\ wire' = NoProof
    /\ UNCHANGED input

Next ==
    \/ ProveCommit
    \/ ProvePublic
    \/ ProveGates
    \/ ProveWiring
    \/ ProveReturn
    \/ Tamper
    \/ VerifyRecv
    \/ VerifyPublic
    \/ VerifyGates
    \/ VerifyWiring
    \/ NextRound

Spec == Init /\ [][Next]_vars

(***************************************************************************)
(* The product argument on its own, as tests::prod_test runs it: a         *)
(* polynomial f given by its evaluations over a domain of size 4 is        *)
(* committed under the label "base", proved and verified, and the next     *)
(* pair runs on the same two transcripts.                                  *)
(***************************************************************************)
ProdDomain == [size |-> 4, group_gen |-> 5]

\* The evaluations of f are scaled by 1 .. MaxScale (1: the product stays 1).
MaxScale == 2

\* The values the first three evaluations are drawn from.
ProdEvals == {1, 2, FieldOrder - 1}

\* The product of the evaluations ev.
ProductOf(ev) == partial_products_in_place(ev)[Len(ev)]

\* Lines 603-611: the evaluations, their product fixed to 1 by the last one
\* (then scaled), and the coefficient vector the in-place ifft leaves.  The
\* test keeps that vector as it is; from_coefficients_vec would trim it.
ProdInit ==
    /\ \E e1 \in ProdEvals, e2 \in ProdEvals, e3 \in ProdEvals, scale \in 1 .. MaxScale,
          trimmed \in BOOLEAN, seed \in 0 .. (NumSeeds - 1), debug \in BOOLEAN :
          LET unit == <<e1, e2, e3, FDiv(1, FMul(FMul(e1, e2), e3))>>
              evals == Vec([i \in 1 .. 4 |-> FMul(unit[i], scale)])
              coeffs == ifft(evals, ProdDomain)
          IN /\ input = [evals |-> evals,
                         f     |-> IF trimmed THEN Trim(coeffs) ELSE coeffs,
                         seed  |-> seed,
                         debug |-> debug]
             /\ prv = [pc |-> "start", fs |-> from_seed(seed), c |-> << >>]
             /\ ver = [pc |-> "start", fs |-> from_seed(seed), c |-> << >>]
    /\ wire = NoProof
    /\ round = 1

\* Line 612: prv.commit("base", poly, Some(dom_size), None).unwrap()
ProdCommit ==
    /\ prv.pc = "start"
    /\ LET c == commit(prv.fs, "base", input.f, ProdDomain.size)
       IN prv' = IF ~c.ok THEN Panic(prv.fs)
                 ELSE [prv EXCEPT !.pc = "product", !.fs = c.fs, !.c = c.c]
    /\ UNCHANGED <<input, ver, wire, round>>

\* Line 613: prv.prove_unit_product(&p, &c, &r, dom); the commitment and the
\* ProductProof go to the verifier.
ProdProve ==
    /\ prv.pc = "product"
    /\ LET r == prove_unit_product(prv.fs, input.f, ProdDomain, input.debug)
       IN IF ~r.ok THEN /\ prv' = Panic(r.fs)
                        /\ wire' = wire
          ELSE /\ prv' = [prv EXCEPT !.pc = "done", !.fs = r.fs]
               /\ wire' = [sent |-> TRUE,
                           pf |-> [base_cmt |-> prv.c, product |-> r.pf],
                           tampered |-> << >>]
    /\ UNCHANGED <<input, ver, round>>

\* Line 615: ver.recv_commit("base", c.commitment, Some(dom_size))
ProdRecv ==
    /\ ver.pc = "start"
    /\ wire.sent
    /\ ver' = [ver EXCEPT !.pc = "product",
                          !.fs = recv_commit(ver.fs, "base", wire.pf.base_cmt),
                          !.c = wire.pf.base_cmt]
    /\ UNCHANGED <<input, prv, wire, round>>

\* Line 616: ver.verify_unit_product(&c, pf, dom)
ProdVerify ==
    /\ ver.pc = "product"
    /\ LET r == verify_unit_product(ver.fs, ver.c, wire.pf.product, ProdDomain)
       IN ver' = [ver EXCEPT !.pc = IF r.ok THEN "accepted" ELSE "rejected", !.fs = r.fs]
    /\ UNCHANGED <<input, prv, wire, round>>

\* Line 601: the next pass of the loop, on the same two transcripts.
ProdNextRound ==
    /\ ver.pc = "accepted"
    /\ round < MaxRounds
    /\ round' = round + 1
    /\ prv' = [pc |-> "start", fs |-> prv.fs, c |-> << >>]
    /\ ver' = [pc |-> "start", fs |-> ver.fs, c |-> << >>]
    /\ wire' = NoProof
    /\ UNCHANGED input

ProdNext ==
    \/ ProdCommit
    \/ ProdProve
    \/ ProdRecv
    \/ ProdVerify
    \/ ProdNextRound

SpecProd == ProdInit /\ [][ProdNext]_vars

(***************************************************************************)
(* The three constraint families, on the wire values of the run.           *)
(***************************************************************************)
shape == Shapes[input.shape]

\* The layouts are the ones the two calls require.
LayoutsAsRequired == input.held.prover /\ ~input.held.verifier

\* Every gate's output wire carries the gate's function of its input wires.
SatisfiesGates ==
    \A i \in 0 .. (GatesDomain.size - 1) :
        Gate(shape.sel[i + 1], input.wires[3 * i + 1], input.wires[3 * i + 2])
            = input.wires[3 * i + 3]

\* Wires the permutation maps to one another carry the same value.
SatisfiesWiring ==
    \A i \in 1 .. WiresDomain.size : input.wires[shape.sigma[i] + 1] = input.wires[i]

\* The public wires carry the values of the map `public`.
SatisfiesPublic(public) ==
    \A i \in 1 .. Len(shape.public_indices) :
        public[shape.public_indices[i][1]] = input.wires[shape.public_indices[i][2] + 1]

\* The remainder of the division of prove_gates (line 295).
gates_remainder == gates_division(input.circ.p.val, input.circ)[2]

(***************************************************************************)
(* The calls a transcript sees in one prove or one verify, in order.       *)
(***************************************************************************)
Absorbed(label) == <<"absorb", label>>
Drawn == <<"gen", "">>

ProofOrder ==
    << Absorbed("p"),
       Absorbed("pub_q"), Drawn,
       Absorbed("gates_q"), Drawn,
       Drawn, Drawn, Absorbed("l1"), Absorbed("t"), Absorbed("q"), Drawn,
       Absorbed("l2_q"), Drawn >>

\* The log entries before the current prove/verify pair.
RoundBase == Len(ProofOrder) * (round - 1)

FollowsOrder(log) ==
    \A i \in 1 .. Len(log) :
        <<log[i].op, log[i].label>> = ProofOrder[((i - 1) % Len(ProofOrder)) + 1]

IsPrefix(a, b) == Len(a) <= Len(b) /\ a = SubSeq(b, 1, Len(a))

\* The challenge the verifier drew at position i of the current verify.
VerifierChallenge(i) == ver.fs.log[RoundBase + i].data[1]

\* C1: a witness that satisfies the gate, public-input and wiring constraints
\* is proved and verified to acceptance: the prover does not fail and the
\* verifier does not reject the proof it is handed.
Completeness ==
    (SatisfiesGates /\ SatisfiesWiring /\ SatisfiesPublic(input.public)
        /\ LayoutsAsRequired /\ wire.tampered = << >>)
    => (prv.pc # "panic" /\ ver.pc # "rejected")

\* A satisfying witness whose proof was produced and accepted.
CompletenessReached ==
    /\ SatisfiesGates /\ SatisfiesWiring /\ SatisfiesPublic(input.public)
    /\ wire.tampered = << >>
    /\ prv.pc = "done"
    /\ ver.pc = "accepted"

\* C4: for an honest proof the verifier's transcript history (absorbed bytes
\* and drawn challenges, in order) is at every moment the beginning of the
\* prover's, and the two transcripts are equal once the proof is accepted;
\* the same on every later pair run on the same two transcripts.
TranscriptLockstep ==
    wire.tampered = << >>
    => /\ IsPrefix(ver.fs.log, prv.fs.log)
       /\ ver.pc = "accepted" => ver.fs = prv.fs

\* A second pair on the same transcripts, verified to the end.
LockstepSecondPair ==
    /\ wire.tampered = << >>
    /\ round > 1
    /\ ver.pc = "accepted"
    /\ Len(ver.fs.log) = Len(ProofOrder) * round

\* C5: both transcripts see the calls of ProofOrder and no others: P's
\* commitment first, then the public-input argument, the gate argument and
\* the wiring argument, so that the gate challenge and y, z, r, x are drawn
\* after "p" and "pub_q" were absorbed; a returned proof and an accepted
\* verification have made all of them.
OrchestrationOrder ==
    /\ FollowsOrder(prv.fs.log)
    /\ FollowsOrder(ver.fs.log)
    /\ prv.pc \in {"return", "done"} => Len(prv.fs.log) = Len(ProofOrder) * round
    /\ ver.pc = "accepted" => Len(ver.fs.log) = Len(ProofOrder) * round

\* Both sides through all three sub-arguments.
OrchestrationDone ==
    /\ prv.pc = "done"
    /\ ver.passed = <<"public", "gates", "wiring">>
    /\ Len(prv.fs.log) = Len(ProofOrder)

\* C6: a proof of which one field was changed is not accepted.
TamperRejected == wire.tampered # << >> => ver.pc # "accepted"

\* A changed field of a proof of a satisfying witness, and the rejection.
TamperedAndRejected ==
    /\ SatisfiesGates /\ SatisfiesWiring /\ SatisfiesPublic(input.public)
    /\ wire.tampered # << >>
    /\ ver.pc = "rejected"

(***************************************************************************)
(* The public-input argument seen from the verifier.                       *)
(***************************************************************************)
\* The witness satisfies the circuit and its public wires carry input.correct;
\* the proof is the prover's and verify_public has returned or failed.
PublicArgumentDone ==
    /\ SatisfiesGates /\ SatisfiesWiring /\ SatisfiesPublic(input.correct)
    /\ LayoutsAsRequired
    /\ wire.tampered = << >>
    /\ ver.pc \notin {"start", "public"}

PublicAccepted == Len(ver.passed) >= 1 /\ ver.passed[1] = "public"

\* V of the correct map minus V of the declared map.
PublicDifference ==
    PolySub(inputs_poly(v_circ, input.correct), inputs_poly(v_circ, input.public))

x_public == VerifierChallenge(3)

\* C7 as stated: on the proof of a satisfying witness verify_public accepts
\* with the correct public map and rejects with a map in which one declared
\* value was changed.
PublicValueCheck ==
    PublicArgumentDone => (PublicAccepted <=> input.public = input.correct)

\* C7, amended: verify_public accepts with the correct public map, and with a
\* map in which one declared value was changed it rejects unless the
\* challenge x it drew is a root of V_correct - V_declared (a nonzero
\* polynomial vanishing at the other public wires' points; a nonzero constant
\* when one value is declared, so that the changed map is then always rejected).
PublicValueCheckUpToRoots ==
    PublicArgumentDone
    => (PublicAccepted <=> PolyEval(PublicDifference, x_public) = 0)

\* A changed declared value, rejected by verify_public.
PublicValueRejected ==
    /\ PublicArgumentDone
    /\ input.public # input.correct
    /\ ~PublicAccepted
    /\ ver.pc = "rejected"

(***************************************************************************)
(* Every check of Verifier::verify, on the proof in flight and the         *)
(* challenges the verifier drew.                                           *)
(***************************************************************************)
x_gates == VerifierChallenge(5)
y_wiring == VerifierChallenge(6)
z_wiring == VerifierChallenge(7)
r_product == VerifierChallenge(11)
x_wiring == VerifierChallenge(13)
w_wires == WiresDomain.group_gen

PublicChecks ==
    LET pf == wire.pf.public
    IN /\ check(wire.pf.p_cmt, x_public, pf.p_open)
       /\ check(pf.q_cmt, x_public, pf.q_open)
       /\ FSub(pf.p_open.v, PolyEval(inputs_poly(v_circ, input.public), x_public))
             = FMul(pf.q_open.v, PolyEval(vanishing_poly_on_inputs(v_circ), x_public))

GateChecks ==
    LET pf == wire.pf.gates
    IN /\ check(verifier_params.s_cmt, x_gates, pf.s_open)
       /\ check(pf.q_cmt, x_gates, pf.q_open)
       /\ check(wire.pf.p_cmt, x_gates, pf.p_open)
       /\ check(wire.pf.p_cmt, FMul(x_gates, w_wires), pf.p_w_open)
       /\ check(wire.pf.p_cmt, FMul(FMul(x_gates, w_wires), w_wires), pf.p_w2_open)
       /\ gate_identity_ok(pf.s_open.v, pf.p_open.v, pf.p_w_open.v, pf.p_w2_open.v,
                           pf.q_open.v, evaluate_vanishing_polynomial(GatesDomain, x_gates))

ProductChecks ==
    LET pf == wire.pf.wiring.l1_prod_pf
        wr == FMul(w_wires, r_product)
    IN /\ check(wire.pf.wiring.l1_cmt, wr, pf.f_wr_open)
       /\ check(pf.q_cmt, r_product, pf.q_r_open)
       /\ check(pf.t_cmt, r_product, pf.t_r_open)
       /\ check(pf.t_cmt, wr, pf.t_wr_open)
       /\ check(pf.t_cmt, element(WiresDomain, WiresDomain.size - 1), pf.t_wk_open)
       /\ partial_product_ok(pf.t_wr_open.v, pf.t_r_open.v, pf.f_wr_open.v, pf.q_r_open.v,
                             WiresDomain, r_product)
       /\ total_product_ok(pf.t_wk_open.v)

WiringChecks ==
    LET pf == wire.pf.wiring
    IN /\ check(pf.l2_q_cmt, x_wiring, pf.l2_q_x_open)
       /\ check(verifier_params.w_cmt, x_wiring, pf.w_x_open)
       /\ check(pf.l1_cmt, x_wiring, pf.l1_x_open)
       /\ check(wire.pf.p_cmt, x_wiring, pf.p_x_open)
       /\ wiring_identity_ok(pf.p_x_open.v, pf.l1_x_open.v, pf.w_x_open.v, pf.l2_q_x_open.v,
                             x_wiring, y_wiring, z_wiring, WiresDomain)

\* C8: verify accepts only if the 2 public, 5 gate, 5 product and 4 wiring
\* opening checks and the five identities all hold on the proof it was
\* given, and only after all three sub-arguments passed; a verification
\* that was rejected passed no sub-argument after the failing one.
ConjunctiveVerification ==
    /\ ver.pc = "accepted"
       => /\ PublicChecks /\ GateChecks /\ ProductChecks /\ WiringChecks
          /\ ver.passed = verify_order
    /\ ver.pc = "rejected" => Len(ver.passed) < Len(verify_order)

\* A proof rejected in the last sub-argument after the first two passed.
RejectedInLastArgument ==
    /\ ver.pc = "rejected"
    /\ ver.passed = <<"public", "gates">>
    /\ PublicChecks /\ GateChecks

\* C10: when the division of prove_gates leaves a nonzero remainder,
\* prove_gates fails and no Proof is returned, whatever the gate challenge.
GatePrecondition ==
    gates_remainder # << >> => (prv.gates = Nil /\ ~wire.sent)

(***************************************************************************)
(* The prover-side preconditions on the public wires and on the wiring.    *)
(***************************************************************************)
\* The remainder of P - V by Z_inputs, V interpolating the declared values.
declared_remainder ==
    divide_with_q_and_r(PolySub(input.circ.p.val, inputs_poly(v_circ, input.public)),
                        vanishing_poly_on_inputs(v_circ))[2]

\* C11: when the division of P - V by Z_inputs, V interpolating the declared
\* public values, leaves a nonzero remainder, the prover fails: it produces
\* no PublicProof and no Proof.
PublicPrecondition ==
    declared_remainder # << >> => (prv.public = Nil /\ ~wire.sent)

\* The challenge the prover drew at position i of the current prove.
ProverChallenge(i) == prv.fs.log[RoundBase + i].data[1]

\* prove_wiring has drawn y and z.
WiringDrawn == Len(prv.fs.log) >= RoundBase + 7

\* The denominators P(a) + y a + z and the values of L1 over the wiring
\* domain, for the y and z the prover drew (lines 195-203).
wiring_den_evals ==
    LET p_evals == evaluate_over_domain(input.circ.p.val, WiresDomain)
    IN Vec([i \in 1 .. WiresDomain.size |->
              FAdd(FAdd(p_evals[i], FMul(ProverChallenge(6), element(WiresDomain, i - 1))),
                   ProverChallenge(7))])

wiring_num_evals ==
    LET p_evals == evaluate_over_domain(input.circ.p.val, WiresDomain)
        w_evals == evaluate_over_domain(pub_params.w, WiresDomain)
    IN Vec([i \in 1 .. WiresDomain.size |->
              FAdd(FAdd(p_evals[i], FMul(ProverChallenge(6), w_evals[i])),
                   ProverChallenge(7))])

DenominatorsNonzero ==
    LET den == wiring_den_evals
    IN \A i \in 1 .. WiresDomain.size : den[i] # 0

wiring_l1_evals ==
    LET num == wiring_num_evals
        den == wiring_den_evals
    IN Vec([i \in 1 .. WiresDomain.size |-> FDiv(num[i], den[i])])

\* C12: when the values of L1 over the wiring domain do not multiply to 1,
\* prove_wiring fails: it produces no WiringProof, and prove returns no Proof.
WiringPrecondition ==
    (WiringDrawn /\ DenominatorsNonzero /\ ProductOf(wiring_l1_evals) # 1)
    => (prv.wiring = Nil /\ ~wire.sent)

\* C13: prove called with a layout without the witness, and verify called
\* with a layout that holds it, fail at once: the failed call leaves its
\* transcript as it was seeded, no commitment was made or received, no
\* sub-argument was run and no Proof was returned.
LayoutPrecondition ==
    /\ ~prove_circ.p.some
       => /\ prv.pc \in {"start", "panic"}
          /\ prv.fs = from_seed(input.seed)
          /\ prv.p_cmt = << >> /\ prv.public = Nil /\ prv.gates = Nil /\ prv.wiring = Nil
          /\ ~wire.sent
    /\ verify_circ.p.some
       => /\ ver.pc \in {"start", "rejected"}
          /\ ver.fs = from_seed(input.seed)
          /\ ver.p_cmt = << >> /\ ver.passed = << >>

\* verify was called on a returned Proof with a layout that holds the
\* witness, and failed.
LayoutRejected ==
    /\ verify_circ.p.some
    /\ prv.pc = "done" /\ wire.sent
    /\ ver.pc = "rejected"

(***************************************************************************)
(* Commitments and the challenges drawn after them.                        *)
(***************************************************************************)
\* The number of challenges a prove or a verify has drawn when it makes or
\* receives the commitment of each label (the gen calls before lines 379,
\* 265, 392, 205, 120, 151, 223 and before lines 482, 495, 511, 533, 420,
\* 421, 535).
DrawsBefore ==
    [p |-> 0, pub_q |-> 0, gates_q |-> 1, l1 |-> 4, t |-> 4, q |-> 4, l2_q |-> 5]

\* The commitments of the parts of a proof, with their labels.
PublicCommitments(pf) == << <<"pub_q", pf.q_cmt>> >>
GateCommitments(pf) == << <<"gates_q", pf.q_cmt>> >>
WiringCommitments(pf) ==
    << <<"l1", pf.l1_cmt>>, <<"t", pf.l1_prod_pf.t_cmt>>, <<"q", pf.l1_prod_pf.q_cmt>>,
       <<"l2_q", pf.l2_q_cmt>> >>

\* The commitments the prover has made in the current prove.
ProverCommitments ==
    (IF prv.p_cmt = << >> THEN << >> ELSE << <<"p", prv.p_cmt>> >>)
    \o (IF prv.public = Nil THEN << >> ELSE PublicCommitments(prv.public))
    \o (IF prv.gates = Nil THEN << >> ELSE GateCommitments(prv.gates))
    \o (IF prv.wiring = Nil THEN << >> ELSE WiringCommitments(prv.wiring))

\* The commitments the verifier has received in the current verify: p's, and
\* those of the sub-arguments it has been through.
VerifierCommitments ==
    LET Through(stage) == \E i \in 1 .. Len(ver.passed) : ver.passed[i] = stage
    IN (IF ver.p_cmt = << >> THEN << >> ELSE << <<"p", ver.p_cmt>> >>)
       \o (IF Through("public") THEN PublicCommitments(wire.pf.public) ELSE << >>)
       \o (IF Through("gates") THEN GateCommitments(wire.pf.gates) ELSE << >>)
       \o (IF Through("wiring") THEN WiringCommitments(wire.pf.wiring) ELSE << >>)

\* The place in the current call's part of log where the commitment c was
\* absorbed under label (0: nowhere), and the place of its n-th challenge
\* (past the end: not drawn yet).
AbsorbIndex(log, label, c) ==
    LET found == {i \in (RoundBase + 1) .. Len(log) :
                     /\ log[i].op = "absorb" /\ log[i].label = label
                     /\ log[i].data = to_bytes(c)}
    IN IF found = {} THEN 0 ELSE CHOOSE i \in found : \A j \in found : i <= j

DrawIndex(log, n) ==
    LET Draws(i) == Cardinality({j \in (RoundBase + 1) .. i : log[j].op = "gen"})
        found == {i \in (RoundBase + 1) .. Len(log) : log[i].op = "gen" /\ Draws(i) = n}
    IN IF found = {} THEN Len(log) + 1 ELSE CHOOSE i \in found : TRUE

AbsorbedBeforeNextDraw(log, held) ==
    \A k \in 1 .. Len(held) :
        LET i == AbsorbIndex(log, held[k][1], held[k][2])
        IN i > 0 /\ i < DrawIndex(log, DrawsBefore[held[k][1]] + 1)

\* C14: every commitment the prover has made and every commitment the
\* verifier has received in the current call is in that role's transcript,
\* absorbed in the step that made or received it and before the next
\* challenge the role drew.
AbsorbBeforeChallenge ==
    /\ AbsorbedBeforeNextDraw(prv.fs.log, ProverCommitments)
    /\ AbsorbedBeforeNextDraw(ver.fs.log, VerifierCommitments)

\* Both roles through every commitment and every challenge.
AllAbsorbedAndDrawn ==
    /\ Len(ProverCommitments) = Cardinality(DOMAIN DrawsBefore)
    /\ Len(VerifierCommitments) = Cardinality(DOMAIN DrawsBefore)
    /\ DrawIndex(prv.fs.log, DrawsBefore.l2_q + 1) <= Len(prv.fs.log)
    /\ DrawIndex(ver.fs.log, DrawsBefore.l2_q + 1) <= Len(ver.fs.log)

(***************************************************************************)
(* The forms of what the prover absorbs and puts into the Proof.           *)
(***************************************************************************)
\* The openings (value, proof) of the parts the prover has produced.
OpeningsOf(part, names) == {part[n] : n \in names}

ProverOpenings ==
    (IF prv.public = Nil THEN {} ELSE OpeningsOf(prv.public, {"q_open", "p_open"}))
    \cup (IF prv.gates = Nil THEN {}
          ELSE OpeningsOf(prv.gates,
                          {"s_open", "q_open", "p_open", "p_w_open", "p_w2_open"}))
    \cup (IF prv.wiring = Nil THEN {}
          ELSE OpeningsOf(prv.wiring,
                          {"p_x_open", "w_x_open", "l1_x_open", "l2_q_x_open"})
               \cup OpeningsOf(prv.wiring.l1_prod_pf,
                               {"t_wk_open", "t_r_open", "t_wr_open", "f_wr_open",
                                "q_r_open"}))

CommitmentsPublicized ==
    \A k \in 1 .. Len(prv.cmt_forms) :
        prv.cmt_forms[k][2].absorbed = Public /\ prv.cmt_forms[k][2].returned = Public

\* C15: every commitment was publicized before the prover absorbed it and
\* kept it for the Proof, and every opening the prover kept for the Proof
\* has a publicized value and a publicized opening proof.
PublicizeBeforeUse ==
    /\ CommitmentsPublicized
    /\ \A o \in ProverOpenings : o.form.v = Public /\ o.form.pf = Public

(***************************************************************************)
(* The grand product of the wiring argument.                               *)
(***************************************************************************)
\* C16: whatever the witness and whatever y and z prove_wiring drew, no
\* denominator P(a) + y a + z is zero at a point a of the wiring domain.
DenominatorNonvanishing == WiringDrawn => DenominatorsNonzero

\* W maps the wiring domain onto itself, and P takes the same value at a and
\* at W(a) for every point a of the domain.
WiringRespected ==
    LET points == {element(WiresDomain, i) : i \in 0 .. (WiresDomain.size - 1)}
        images == {<<a, PolyEval(input.circ.w, a)>> : a \in points}
    IN /\ {m[2] : m \in images} = points
       /\ \A m \in images :
             PolyEval(input.circ.p.val, m[2]) = PolyEval(input.circ.p.val, m[1])

\* The table t of prove_unit_product for the L1 of the y and z drawn (line 111).
wiring_t_evals == partial_products_in_place(wiring_l1_evals)

\* C17: when the wiring is respected and no denominator is zero, the values
\* of L1 over the wiring domain multiply to 1: the last entry of the table
\* of partial products is 1, and so is the value of t the prover opens at
\* the last point of the domain.
GrandProduct ==
    (WiringDrawn /\ DenominatorsNonzero /\ WiringRespected)
    => /\ wiring_t_evals[WiresDomain.size] = 1
       /\ prv.wiring # Nil => prv.wiring.l1_prod_pf.t_wk_open.v = 1

\* A respected wiring with an L1 that is not constant 1, proved.
GrandProductProved ==
    /\ WiringDrawn /\ DenominatorsNonzero /\ WiringRespected
    /\ \E i \in 1 .. WiresDomain.size : wiring_l1_evals[i] # 1
    /\ prv.wiring # Nil
    /\ wiring_t_evals[WiresDomain.size] = 1

(***************************************************************************)
(* The product argument on its own (SpecProd).                             *)
(***************************************************************************)
\* C2: when the evaluations of f over the domain multiply to 1,
\* prove_unit_product produces a ProductProof and verify_unit_product
\* accepts it: the prover does not fail and the verifier does not reject.
ProductAcceptance ==
    ProductOf(input.evals) = 1 => (prv.pc # "panic" /\ ver.pc # "rejected")

\* A unit product proved and accepted.
ProductAccepted ==
    /\ ProductOf(input.evals) = 1
    /\ prv.pc = "done"
    /\ ver.pc = "accepted"

\* C3: when the evaluations of f are rescaled so that their product is not 1,
\* the pair never ends in acceptance: the verifier rejects, or the prover
\* produced no ProductProof.
ProductRejection ==
    ProductOf(input.evals) # 1 => ver.pc # "accepted"

\* A product other than 1, proved (by a build without debug assertions) and
\* rejected by the verifier.
ProductRejected ==
    /\ ProductOf(input.evals) # 1
    /\ wire.sent
    /\ ver.pc = "rejected"

=============================================================================
